---------------------------- MODULE Spec2Model ----------------------------
(***************************************************************************)
(* rdedup (src/src/bin.rs): content-defined chunker, producer/writer       *)
(* storage pipeline with recursive index levels, and the restore walker.   *)
(*                                                                         *)
(* Bytes are symbolic.  A raw input byte carries a small number; a byte    *)
(* of a SHA-256 digest carries the hashed content and its position in the  *)
(* digest, so two digests are equal exactly when the hashed contents are   *)
(* (the hash is collision free) and a digest is always DigestLen bytes.    *)
(* A byte string (Vec<u8>, &[u8]) is kept as the sequence of its runs: a   *)
(* raw byte, or the bytes lo..hi of one digest.                            *)
(***************************************************************************)
EXTENDS Integers, Sequences, FiniteSets, TLC

VARIABLES
    edgeBytes,     \* rollsum: raw byte values at which the rolling sum hits the edge mask
    edgeDigest,    \* rollsum: <<content, position>> of digest bytes that hit the edge mask
    chunker,       \* the Chunker of the running store_data level, or one used directly
    ck_calls,      \* direct use: the calls made on the Chunker, in order
    ck_fed,        \* direct use: concatenation of every buffer given to input()
    ck_out,        \* direct use: every edge returned so far, in emission order
    ck_last,       \* direct use: the edge list returned by the last call
    ck_tail,       \* direct use: bytes fed since the last rolling-hash edge
    files,         \* the repository: path -> file contents under chunks/ and index/
    nextKey,       \* box_::gen_keypair: number of ephemeral keypairs generated so far
    pc,            \* main thread: "idle", "read", "returned", "join", "panic"
    cur,           \* the stream on stdin of the running save
    reader,        \* store_data: what is left to read from the reader
    kind,          \* store_data: chunk_type of the running level
    level,         \* store_data: recursion depth of the running level
    index,         \* store_data: the index accumulator of the running level
    root,          \* final_digest returned by store_stdio
    chan,          \* the mpsc channel: messages sent and not yet received
    wpc,           \* chunk_writer thread: "none", "run", "done", "panic"
    pending_data,  \* chunk_writer: buffers of a chunk not yet closed
    wcur,          \* chunk_writer: its place inside the Data message it is handling
                   \* (followed call by call), <<>> when it is at rx.recv()
    filesAtStart,  \* history: the repository when the running save started
    sent,          \* history: chunk_type and level of every Data message of the running save
    emitted,       \* history: <<chunk_type, digest>> of every edge sent in the running save
    saved,         \* history: the save commands run so far, in order
    load_arg,      \* the load command run since the last save: its argument (hex)
    load_out,      \* that load command: the bytes written to stdout
    load_status,   \* that load command: "none", "ok", "panic"
    load_err       \* that load command: what it panicked on, or "none"

ckvars_h == <<ck_calls, ck_fed, ck_out, ck_last, ck_tail>>
ckvars == <<chunker, ckvars_h>>
rollvars == <<edgeBytes, edgeDigest>>
savevars == <<files, nextKey, pc, cur, reader, kind, level, index, root, chan,
              wpc, pending_data, wcur, filesAtStart, sent, emitted, saved>>
loadvars == <<load_arg, load_out, load_status, load_err>>

---------------------------------------------------------------------------
(* Bounds of the model *)

MaxBufLen == 2
MaxCalls == 3
MaxStreamLen == 3
MaxSplitLen == 3
MaxSaves == 2
MaxLevel == 3

(* Program constants *)

DigestLen == 32
BufSize == 16 * 1024

---------------------------------------------------------------------------
(* Byte strings *)

RawByte(n) == [k |-> "raw", of |-> <<>>, lo |-> n, hi |-> n]
DigestRun(content, lo, hi) == [k |-> "sha", of |-> content, lo |-> lo, hi |-> hi]

RawValues == {0, 1}
RawBytes == {RawByte(n) : n \in RawValues}

RECURSIVE SeqsUpTo(_, _)
SeqsUpTo(S, n) ==
    IF n = 0 THEN {<<>>}
    ELSE LET shorter == SeqsUpTo(S, n - 1)
         IN  shorter \cup {Append(s, x) : s \in {t \in shorter : Len(t) = n - 1}, x \in S}

RunLen(r) == IF r.k = "raw" THEN 1 ELSE r.hi - r.lo + 1

\* buf.len()
RECURSIVE BLen(_)
BLen(b) == IF b = <<>> THEN 0 ELSE RunLen(Head(b)) + BLen(Tail(b))

\* Two runs that are consecutive bytes of the same digest are one run.
Joins(r1, r2) == r1.k = "sha" /\ r2.k = "sha" /\ r1.of = r2.of /\ r2.lo = r1.hi + 1

\* Appending byte strings (write_all, append, push of bytes).
Cat(a, b) ==
    IF a = <<>> THEN b
    ELSE IF b = <<>> THEN a
    ELSE IF Joins(a[Len(a)], b[1])
    THEN SubSeq(a, 1, Len(a) - 1) \o <<[a[Len(a)] EXCEPT !.hi = b[1].hi]>> \o Tail(b)
    ELSE a \o b

RECURSIVE Drop(_, _)
Drop(b, n) ==
    IF n = 0 \/ b = <<>> THEN b
    ELSE IF n >= RunLen(Head(b)) THEN Drop(Tail(b), n - RunLen(Head(b)))
    ELSE <<[Head(b) EXCEPT !.lo = @ + n]>> \o Tail(b)

RECURSIVE Take(_, _)
Take(b, n) ==
    IF n = 0 \/ b = <<>> THEN <<>>
    ELSE IF n >= RunLen(Head(b)) THEN <<Head(b)>> \o Take(Tail(b), n - RunLen(Head(b)))
    ELSE <<[Head(b) EXCEPT !.hi = Head(b).lo + n - 1]>>

\* &buf[from..to], for 0 <= from <= to <= buf.len()
Slice(b, from, to) == Take(Drop(b, from), to - from)

---------------------------------------------------------------------------
(* SHA-256 *)

\* sha2::Sha256: new / input / result / reset.  The state is what was fed.
Sha256New == <<>>
Sha256Input(st, bytes) == Cat(st, bytes)
Sha256Result(st) == <<DigestRun(st, 1, DigestLen)>>

\* SHA-256 of a whole byte string.
Sha256(content) == Sha256Result(Sha256Input(Sha256New, content))

\* The byte string a digest is the SHA-256 of.
Preimage(digest) == digest[1].of

---------------------------------------------------------------------------
(* rollsum::Bup.  The rolling sum is a function of the bytes rolled since  *)
(* new(); the model keeps a window one byte wide.  Which byte values hit   *)
(* the edge mask is fixed for a run (edgeBytes, edgeDigest).               *)

BupNew == <<>>

\* The positions lo..hi of run r whose byte hits the edge mask.
RunHits(r) ==
    IF r.k = "raw" THEN {p \in {r.lo} : p \in edgeBytes}
    ELSE {p \in r.lo..r.hi : <<r.of, p>> \in edgeDigest}

\* The number of bytes up to and including the first that hits the edge
\* mask, 0 if none does.
RECURSIVE FirstHit(_)
FirstHit(buf) ==
    IF buf = <<>> THEN 0
    ELSE LET r == Head(buf)
             hits == RunHits(r)
         IN  IF hits # {}
             THEN (CHOOSE p \in hits : \A q \in hits : p <= q) - r.lo + 1
             ELSE LET rest == FirstHit(Tail(buf))
                  IN  IF rest = 0 THEN 0 ELSE RunLen(r) + rest

\* Bup::find_chunk_edge: Some(count) is count > 0, None is count = 0.  It
\* rolls byte after byte and stops at the first one that hits the mask.
find_chunk_edge(roll, buf) ==
    LET count == FirstHit(buf)
        rolled == IF count = 0 THEN BLen(buf) ELSE count
    IN  [count |-> count,
         roll |-> IF rolled = 0 THEN roll ELSE Slice(buf, rolled - 1, rolled)]

---------------------------------------------------------------------------
(* Chunker *)

ChunkerNew ==
    [roll |-> BupNew, sha256 |-> Sha256New, bytes_total |-> 0,
     bytes_chunk |-> 0, chunks_total |-> 0, edges |-> <<>>]

\* A plausible slip: the hash state is not reset at an edge.
edge_found_keeps_hash(c, input_ofs) ==
    [c EXCEPT !.edges = Append(@, <<input_ofs, Sha256Result(c.sha256)>>),
              !.chunks_total = @ + 1,
              !.bytes_chunk = @ + 0,
              !.roll = BupNew]

edge_found(c, input_ofs) ==
    [c EXCEPT !.edges = Append(@, <<input_ofs, Sha256Result(c.sha256)>>),
              !.chunks_total = @ + 1,
              !.bytes_chunk = @ + 0,
              !.sha256 = Sha256New,
              !.roll = BupNew]

RECURSIVE InputLoop(_, _, _)

\* A plausible slip: the edge carries the offset from where the search began.
InputLoop_relative_offset(c, buf, ofs) ==
    LET len == BLen(buf) IN
    IF ofs < len
    THEN LET f == find_chunk_edge(c.roll, Slice(buf, ofs, len))
         IN  IF f.count # 0
             THEN LET count == f.count
                      c1 == [c EXCEPT !.roll = f.roll,
                                      !.sha256 = Sha256Input(@, Slice(buf, ofs, ofs + count)),
                                      !.bytes_chunk = @ + count,
                                      !.bytes_total = @ + count]
                  IN  InputLoop(edge_found(c1, count), buf, ofs + count)
             ELSE LET count == len - ofs
                  IN  [c EXCEPT !.roll = f.roll,
                                !.sha256 = Sha256Input(@, Slice(buf, ofs, len)),
                                !.bytes_chunk = @ + count,
                                !.bytes_total = @ + count]
    ELSE c

\* The while loop of Chunker::input, from offset ofs on.
InputLoop(c, buf, ofs) ==
    LET len == BLen(buf) IN
    IF ofs < len
    THEN LET f == find_chunk_edge(c.roll, Slice(buf, ofs, len))
         IN  IF f.count # 0
             THEN LET count == f.count
                      c1 == [c EXCEPT !.roll = f.roll,
                                      !.sha256 = Sha256Input(@, Slice(buf, ofs, ofs + count)),
                                      !.bytes_chunk = @ + count,
                                      !.bytes_total = @ + count]
                  IN  InputLoop(edge_found(c1, ofs + count), buf, ofs + count)
             ELSE LET count == len - ofs
                  IN  [c EXCEPT !.roll = f.roll,
                                !.sha256 = Sha256Input(@, Slice(buf, ofs, len)),
                                !.bytes_chunk = @ + count,
                                !.bytes_total = @ + count]
    ELSE c

\* Chunker::input: the chunker afterwards and the edges returned.
input(c, buf) ==
    LET c1 == InputLoop(c, buf, 0)
    IN  [chunker |-> [c1 EXCEPT !.edges = <<>>], edges |-> c1.edges]

\* A plausible slip: the bytes after the last edge are never closed.
finish_drops_tail(c) ==
    [chunker |-> [c EXCEPT !.edges = <<>>], edges |-> c.edges]

\* Chunker::finish: the chunker afterwards and the edges returned.
finish(c) ==
    LET c1 == IF c.bytes_chunk # 0 THEN edge_found(c, 0) ELSE c
    IN  [chunker |-> [c1 EXCEPT !.edges = <<>>], edges |-> c1.edges]

---------------------------------------------------------------------------
(* The rolling hash drawn for a run *)

\* The raw values are interchangeable, so the sets of edge values are drawn
\* up to renaming.
EdgeByteChoices == {{}, {0}, {0, 1}}
TriggerContents == {<<b>> : b \in RawBytes}
TriggerPositions == {DigestLen \div 2, DigestLen}
EdgeDigestChoices ==
    {{}} \cup {{<<c, p>>} : c \in TriggerContents, p \in TriggerPositions}

RollInit ==
    /\ edgeBytes \in EdgeByteChoices
    /\ edgeDigest \in EdgeDigestChoices

---------------------------------------------------------------------------
(* Hex, paths, the sealed box *)

NonceBytes == 24

\* to_hex / from_hex: a hex string is a value of its own kind that encodes the
\* bytes; from_hex fails on anything that is not the encoding of a byte string.
ToHex(bytes) == [hex |-> bytes]
FromHex(str) == str.hex

ChunkTypes == <<"Index", "Data">>

\* digest_to_path: the slices digest[0..1] and digest[1..2] panic on a digest
\* shorter than two bytes.
digest_to_path_panics(digest) == BLen(digest) < 2
digest_to_path(digest, chunk_type) ==
    [dir |-> IF chunk_type = "Data" THEN "chunks" ELSE "index",
     d0 |-> ToHex(Slice(digest, 0, 1)),
     d1 |-> ToHex(Slice(digest, 1, 2)),
     name |-> ToHex(digest)]

\* The repository's keypair and the ephemeral ones (gen_keypair is fresh each call).
RepoSecKey == [sk |-> 0]
PublicOf(sec) == [pk |-> sec.sk]
RepoPubKey == PublicOf(RepoSecKey)
GenSecKey(n) == [sk |-> n + 1]

\* box_::seal / box_::open: the box is keyed by the pair of keypairs and the nonce.
Seal(plain, nonce, pub, sec) ==
    [plain |-> plain, nonce |-> nonce, between |-> {pub.pk, sec.sk}]
OpenOk(cipher, nonce, pub, sec) ==
    cipher.nonce = nonce /\ cipher.between = {pub.pk, sec.sk}
Open(cipher, nonce, pub, sec) == cipher.plain

---------------------------------------------------------------------------
(* chunk_writer *)

RECURSIVE Concat(_)
Concat(bufs) == IF bufs = <<>> THEN <<>> ELSE Cat(Head(bufs), Concat(Tail(bufs)))

\* A plausible slip: the pending buffers are left out of the chunk.
whole_data_slice_only(pending, data, prev_ofs, ofs) ==
    IF ofs # prev_ofs THEN Slice(data, prev_ofs, ofs) ELSE <<>>

\* for data in pending_data.drain(..) ... data[prev_ofs..*ofs]
whole_data(pending, data, prev_ofs, ofs) ==
    Cat(Concat(pending), IF ofs # prev_ofs THEN Slice(data, prev_ofs, ofs) ELSE <<>>)

\* What fs::File::create leaves at the path before anything is written.
CreatedFile ==
    [ephemeral_pub |-> [pk |-> -1],
     cipher |-> [plain |-> <<>>, nonce |-> <<>>, between |-> {}]]

\* One pass of the loop over the edges of a Data message, the path absent:
\* create the file, seal pending_data and data[prev_ofs..ofs] into it.  The
\* slice panics when it is out of range, after the file was created.
\* w = [pending, files, nextKey, prev_ofs, panic]
WriteFile(w, data, ofs, sha256, path) ==
    IF ofs # w.prev_ofs /\ ~(w.prev_ofs <= ofs /\ ofs <= BLen(data))
    THEN [w EXCEPT !.panic = TRUE, !.files = path :> CreatedFile @@ @,
                   !.nextKey = @ + 1]
    ELSE LET ephemeral_sec == GenSecKey(w.nextKey)
             nonce == Slice(sha256, 0, NonceBytes)
             cipher == Seal(whole_data(w.pending, data, w.prev_ofs, ofs),
                            nonce, RepoPubKey, ephemeral_sec)
         IN  [w EXCEPT !.files = path :> [ephemeral_pub |-> PublicOf(ephemeral_sec),
                                          cipher |-> cipher] @@ @,
                       !.nextKey = @ + 1,
                       !.pending = <<>>,
                       !.prev_ofs = ofs]

\* A plausible slip: the file is written whether or not the path exists.
WriteEdge_no_exists_check(w, data, edge, chunk_type) ==
    IF w.panic THEN w
    ELSE WriteFile(w, data, edge[1], edge[2], digest_to_path(edge[2], chunk_type))

\* A plausible slip: a dedup hit leaves the pending buffers in place.
WriteEdge_hit_keeps_pending(w, data, edge, chunk_type) ==
    LET path == digest_to_path(edge[2], chunk_type)
    IN  IF w.panic THEN w
        ELSE IF path \notin DOMAIN w.files
        THEN WriteFile(w, data, edge[1], edge[2], path)
        ELSE [w EXCEPT !.prev_ofs = edge[1]]

\* A plausible slip: File::create comes before the test of path.exists(), so
\* a file that is already there is truncated.
WriteEdge_creates_first(w, data, edge, chunk_type) ==
    LET path == digest_to_path(edge[2], chunk_type)
    IN  IF w.panic THEN w
        ELSE IF path \notin DOMAIN w.files
        THEN WriteFile(w, data, edge[1], edge[2], path)
        ELSE [w EXCEPT !.files = path :> CreatedFile @@ @,
                       !.pending = <<>>, !.prev_ofs = edge[1]]

\* One pass of the loop over the edges of a Data message.
WriteEdge(w, data, edge, chunk_type) ==
    LET ofs == edge[1]
        sha256 == edge[2]
        path == digest_to_path(sha256, chunk_type)
    IN  IF w.panic THEN w
        ELSE IF path \notin DOMAIN w.files
        THEN WriteFile(w, data, ofs, sha256, path)
        ELSE [w EXCEPT !.pending = <<>>, !.prev_ofs = ofs]

RECURSIVE WriteEdges(_, _, _, _, _)

\* A plausible slip: the loop is left after the first edge of a message.
WriteEdges_first_only(w, data, edges, i, chunk_type) ==
    IF i > 1 THEN w
    ELSE WriteEdges(WriteEdge(w, data, edges[i], chunk_type), data, edges, i + 1, chunk_type)

WriteEdges(w, data, edges, i, chunk_type) ==
    IF i > Len(edges) THEN w
    ELSE WriteEdges(WriteEdge(w, data, edges[i], chunk_type), data, edges, i + 1, chunk_type)

\* The Data arm of chunk_writer's match.
WriterData(w, data, edges, chunk_type) ==
    IF edges = <<>>
    THEN [w EXCEPT !.pending = Append(@, data)]
    ELSE LET w1 == WriteEdges([w EXCEPT !.prev_ofs = 0], data, edges, 1, chunk_type)
         IN  IF w1.panic THEN w1
             ELSE IF w1.prev_ofs # BLen(data)
             THEN IF w1.prev_ofs > BLen(data) THEN [w1 EXCEPT !.panic = TRUE]
                  ELSE [w1 EXCEPT !.pending =
                            Append(@, Slice(data, w1.prev_ofs, BLen(data)))]
             ELSE w1

WriterRecv ==
    /\ wpc = "run"
    /\ chan # <<>>
    /\ LET msg == Head(chan)
       IN  IF msg.tag = "Exit"
           THEN /\ wpc' = IF pending_data = <<>> THEN "done" ELSE "panic"
                /\ UNCHANGED <<files, nextKey, pending_data>>
           ELSE LET w == WriterData([pending |-> pending_data, files |-> files,
                                     nextKey |-> nextKey, prev_ofs |-> 0, panic |-> FALSE],
                                    msg.data, msg.edges, msg.chunk_type)
                IN  /\ wpc' = IF w.panic THEN "panic" ELSE "run"
                    /\ files' = w.files
                    /\ nextKey' = w.nextKey
                    /\ pending_data' = w.pending
    /\ chan' = Tail(chan)
    /\ UNCHANGED <<pc, cur, reader, kind, level, index, root, filesAtStart, sent, emitted, saved>>
    /\ UNCHANGED <<wcur, rollvars, ckvars, loadvars>>

---------------------------------------------------------------------------
(* store_data and main's Save arm *)

DataMsg(data, edges, chunk_type) ==
    [tag |-> "Data", data |-> data, edges |-> edges, chunk_type |-> chunk_type]
ExitMsg == [tag |-> "Exit"]

\* for &(_, ref sum) in &edges { index.append(..) }
RECURSIVE Sums(_)
Sums(edges) == IF edges = <<>> THEN <<>> ELSE Cat(Head(edges)[2], Sums(Tail(edges)))

Min(a, b) == IF a < b THEN a ELSE b

\* <<chunk_type, digest>> of the edges of one message.
Emits(edges, chunk_type) == {<<chunk_type, edges[i][2]>> : i \in 1..Len(edges)}

\* reader.read(&mut buf): a Cursor fills the buffer; stdin may also return
\* less (short reads are drawn while at most MaxSplitLen bytes are left).
ReadCounts(rest, chunk_type) ==
    LET full == Min(BufSize, BLen(rest))
    IN  IF chunk_type = "Index" THEN {full}
        ELSE {full} \cup {n \in 1..full : BLen(rest) <= MaxSplitLen}

\* What a save may find on stdin: short raw streams, and byte strings equal
\* to the plaintext of an object already stored under index/.
IndexPlaintexts ==
    {files[p].cipher.plain : p \in {q \in DOMAIN files : q.dir = "index"}}
Streams == SeqsUpTo(RawBytes, MaxStreamLen) \cup IndexPlaintexts

\* A plausible slip: an index of one digest is stored as a stream too.
Recurses_from_one_digest(index_bytes) == BLen(index_bytes) >= DigestLen

\* if index.len() > 32: store the index as a stream of its own.
Recurses(index_bytes) == BLen(index_bytes) > DigestLen

\* main, Command::Save up to store_stdio's call of store_data.
StartSave(stream) ==
    /\ pc = "idle"
    /\ Len(saved) < MaxSaves
    /\ pc' = "read"
    /\ cur' = stream
    /\ reader' = stream
    /\ kind' = "Data"
    /\ level' = 0
    /\ chunker' = ChunkerNew
    /\ index' = <<>>
    /\ root' = <<>>
    /\ chan' = <<>>
    /\ wpc' = "run"
    /\ pending_data' = <<>>
    /\ filesAtStart' = files
    /\ sent' = <<>>
    /\ emitted' = {}
    /\ load_arg' = ToHex(<<>>)
    /\ load_out' = <<>>
    /\ load_status' = "none"
    /\ load_err' = "none"
    /\ UNCHANGED <<files, nextKey, saved, wcur, rollvars, ckvars_h>>

\* One pass of store_data's loop with len > 0.  tx.send fails once the
\* receiver is gone.
ProducerRead ==
    /\ pc = "read"
    /\ reader # <<>>
    /\ \E len \in ReadCounts(reader, kind) :
         LET buf == Slice(reader, 0, len)
             r == input(chunker, buf)
         IN  /\ reader' = Slice(reader, len, BLen(reader))
             /\ chunker' = r.chunker
             /\ index' = Cat(index, Sums(r.edges))
             /\ IF wpc = "panic"
                THEN pc' = "panic" /\ chan' = chan /\ sent' = sent /\ emitted' = emitted
                ELSE /\ pc' = pc
                     /\ chan' = Append(chan, DataMsg(buf, r.edges, kind))
                     /\ sent' = Append(sent, [chunk_type |-> kind, level |-> level])
                     /\ emitted' = emitted \cup Emits(r.edges, kind)
    /\ UNCHANGED <<files, nextKey, cur, kind, level, root, wpc, pending_data,
                   filesAtStart, saved>>
    /\ UNCHANGED <<wcur, rollvars, ckvars_h, loadvars>>

\* len == 0: leave the loop, finish the chunker, send the terminal message,
\* then recurse over the index or return it.
ProducerFinish ==
    /\ pc = "read"
    /\ reader = <<>>
    /\ LET r == finish(chunker)
           index1 == Cat(index, Sums(r.edges))
       IN  IF wpc = "panic"
           THEN /\ pc' = "panic"
                /\ chunker' = r.chunker
                /\ index' = index1
                /\ UNCHANGED <<chan, sent, emitted, reader, kind, level, root>>
           ELSE /\ chan' = Append(chan, DataMsg(<<>>, r.edges, kind))
                /\ sent' = Append(sent, [chunk_type |-> kind, level |-> level])
                /\ emitted' = emitted \cup Emits(r.edges, kind)
                /\ IF Recurses(index1)
                   THEN /\ level < MaxLevel
                        /\ reader' = index1
                        /\ kind' = "Index"
                        /\ level' = level + 1
                        /\ chunker' = ChunkerNew
                        /\ index' = <<>>
                        /\ UNCHANGED <<pc, root>>
                   ELSE /\ pc' = "returned"
                        /\ root' = index1
                        /\ chunker' = r.chunker
                        /\ index' = index1
                        /\ UNCHANGED <<reader, kind, level>>
    /\ UNCHANGED <<files, nextKey, cur, wpc, pending_data, filesAtStart, saved>>
    /\ UNCHANGED <<wcur, rollvars, ckvars_h, loadvars>>

\* println!("Stored as ..."); tx.send(Exit)
SendExit ==
    /\ pc = "returned"
    /\ IF wpc = "panic"
       THEN pc' = "panic" /\ chan' = chan
       ELSE pc' = "join" /\ chan' = Append(chan, ExitMsg)
    /\ UNCHANGED <<files, nextKey, cur, reader, kind, level, index, root, wpc,
                   pending_data, filesAtStart, sent, emitted, saved, chunker>>
    /\ UNCHANGED <<wcur, rollvars, ckvars_h, loadvars>>

\* chunk_writer_join.join().unwrap(): the command ends, well or by a panic.
Join ==
    /\ \/ pc = "join" /\ wpc \in {"done", "panic"}
       \/ pc = "panic"
    /\ pc' = "idle"
    /\ wpc' = "none"
    /\ saved' = Append(saved, [stream |-> cur, root |-> root, printed |-> ToHex(root),
                               ok |-> (pc = "join" /\ wpc = "done"),
                               kinds |-> {sent[i].chunk_type : i \in 1..Len(sent)},
                               edges |-> emitted,
                               before |-> filesAtStart, after |-> files])
    /\ sent' = <<>>
    /\ emitted' = {}
    /\ UNCHANGED <<files, nextKey, cur, reader, kind, level, index, root, chan,
                   pending_data, filesAtStart, chunker>>
    /\ UNCHANGED <<wcur, rollvars, ckvars_h, loadvars>>

---------------------------------------------------------------------------
(* restore *)

chunk_type(digest, fs) ==
    IF digest_to_path(digest, ChunkTypes[1]) \in DOMAIN fs THEN ChunkTypes[1]
    ELSE IF digest_to_path(digest, ChunkTypes[2]) \in DOMAIN fs THEN ChunkTypes[2]
    ELSE "None"

\* read_file_to_writer: [ok, plain]; the unwraps panic.
read_file_to_writer(path, digest, fs) ==
    LET file == fs[path]
        nonce == Slice(digest, 0, NonceBytes)
    IN  IF BLen(digest) < NonceBytes THEN [ok |-> FALSE, plain |-> <<>>]
        ELSE IF ~OpenOk(file.cipher, nonce, file.ephemeral_pub, RepoSecKey)
        THEN [ok |-> FALSE, plain |-> <<>>]
        ELSE [ok |-> TRUE,
              plain |-> Open(file.cipher, nonce, file.ephemeral_pub, RepoSecKey)]

\* restore_data_recursive: [ok, out, err], out being what reached the writer
\* (all of it, or what was written before the panic) and err the panic:
\* "path" (the slices of digest_to_path), "not found" (the None arm),
\* "open" (an unwrap of read_file_to_writer), "assert" (the length assertion).
RECURSIVE restore_data_recursive(_, _)
RECURSIVE RestoreSlices(_, _, _)

\* A plausible slip: a digest with no object restores to nothing.
restore_data_recursive_skips_missing(digest, fs) ==
    IF digest_to_path_panics(digest) THEN [ok |-> FALSE, out |-> <<>>, err |-> "path"]
    ELSE LET ct == chunk_type(digest, fs)
         IN  IF ct = "Index"
             THEN LET r == read_file_to_writer(digest_to_path(digest, "Index"), digest, fs)
                  IN  IF ~r.ok THEN [ok |-> FALSE, out |-> <<>>, err |-> "open"]
                      ELSE IF BLen(r.plain) % DigestLen # 0
                      THEN [ok |-> FALSE, out |-> <<>>, err |-> "assert"]
                      ELSE RestoreSlices(r.plain, 0, fs)
             ELSE IF ct = "Data"
             THEN LET r == read_file_to_writer(digest_to_path(digest, "Data"), digest, fs)
                  IN  [ok |-> r.ok, out |-> r.plain,
                       err |-> IF r.ok THEN "none" ELSE "open"]
             ELSE [ok |-> TRUE, out |-> <<>>, err |-> "none"]

restore_data_recursive(digest, fs) ==
    IF digest_to_path_panics(digest) THEN [ok |-> FALSE, out |-> <<>>, err |-> "path"]
    ELSE LET ct == chunk_type(digest, fs)
         IN  IF ct = "Index"
             THEN LET r == read_file_to_writer(digest_to_path(digest, "Index"), digest, fs)
                  IN  IF ~r.ok THEN [ok |-> FALSE, out |-> <<>>, err |-> "open"]
                      ELSE IF BLen(r.plain) % DigestLen # 0
                      THEN [ok |-> FALSE, out |-> <<>>, err |-> "assert"]
                      ELSE RestoreSlices(r.plain, 0, fs)
             ELSE IF ct = "Data"
             THEN LET r == read_file_to_writer(digest_to_path(digest, "Data"), digest, fs)
                  IN  [ok |-> r.ok, out |-> r.plain,
                       err |-> IF r.ok THEN "none" ELSE "open"]
             ELSE [ok |-> FALSE, out |-> <<>>, err |-> "not found"]

\* index_data.chunks(32).map(..).count(), from slice number i (0-based) on.
RestoreSlices(index_data, i, fs) ==
    IF i * DigestLen >= BLen(index_data) THEN [ok |-> TRUE, out |-> <<>>, err |-> "none"]
    ELSE LET slice == Slice(index_data, i * DigestLen,
                            Min((i + 1) * DigestLen, BLen(index_data)))
             r == restore_data_recursive(slice, fs)
         IN  IF ~r.ok THEN r
             ELSE LET rest == RestoreSlices(index_data, i + 1, fs)
                  IN  [ok |-> rest.ok, out |-> Cat(r.out, rest.out), err |-> rest.err]

restore_data(digest, fs) == restore_data_recursive(digest, fs)

\* main, Command::Load with the argument arg (hex of a digest).
Load(arg) ==
    /\ pc = "idle"
    /\ LET r == restore_data(FromHex(arg), files)
       IN  /\ load_out' = r.out
           /\ load_status' = IF r.ok THEN "ok" ELSE "panic"
           /\ load_err' = r.err
    /\ load_arg' = arg
    /\ UNCHANGED <<savevars, chunker, rollvars, ckvars_h>>

LoadArgs == {saved[i].printed : i \in 1..Len(saved)}

---------------------------------------------------------------------------
(* A Chunker driven directly: any sequence of input() and finish() calls *)

CkInit ==
    /\ chunker = ChunkerNew
    /\ ck_calls = <<>>
    /\ ck_fed = <<>>
    /\ ck_out = <<>>
    /\ ck_last = <<>>
    /\ ck_tail = <<>>

CkInput(buf) ==
    /\ Len(ck_calls) < MaxCalls
    /\ LET r == input(chunker, buf)
           n == Len(r.edges)
       IN  /\ chunker' = r.chunker
           /\ ck_last' = r.edges
           /\ ck_out' = ck_out \o r.edges
           /\ ck_tail' = IF n = 0 THEN Cat(ck_tail, buf)
                         ELSE Slice(buf, r.edges[n][1], BLen(buf))
    /\ ck_calls' = Append(ck_calls, [op |-> "input", buf |-> buf])
    /\ ck_fed' = Cat(ck_fed, buf)
    /\ UNCHANGED <<rollvars, savevars, loadvars>>

CkFinish ==
    /\ Len(ck_calls) < MaxCalls
    /\ LET r == finish(chunker)
       IN  /\ chunker' = r.chunker
           /\ ck_last' = r.edges
           /\ ck_out' = ck_out \o r.edges
    /\ ck_calls' = Append(ck_calls, [op |-> "finish", buf |-> <<>>])
    /\ UNCHANGED <<ck_fed, ck_tail, rollvars, savevars, loadvars>>

vars == <<rollvars, ckvars, savevars, loadvars>>

RepoInit ==
    /\ files = <<>>
    /\ nextKey = 0

MainInit ==
    /\ pc = "idle"
    /\ cur = <<>>
    /\ reader = <<>>
    /\ kind = "Data"
    /\ level = 0
    /\ index = <<>>
    /\ root = <<>>
    /\ chan = <<>>
    /\ wpc = "none"
    /\ pending_data = <<>>
    /\ wcur = <<>>
    /\ filesAtStart = <<>>
    /\ sent = <<>>
    /\ emitted = {}
    /\ saved = <<>>
    /\ load_arg = ToHex(<<>>)
    /\ load_out = <<>>
    /\ load_status = "none"
    /\ load_err = "none"

SaveInit == RepoInit /\ MainInit

\* The buffers fed here hold raw bytes only, so no digest byte is rolled.
InitChunker ==
    /\ edgeBytes \in EdgeByteChoices
    /\ edgeDigest = {}
    /\ CkInit
    /\ SaveInit

NextChunker ==
    \/ \E buf \in SeqsUpTo(RawBytes, MaxBufLen) : CkInput(buf)
    \/ CkFinish

SpecChunker == InitChunker /\ [][NextChunker]_vars

Init == RollInit /\ CkInit /\ SaveInit

Next ==
    \/ \E stream \in Streams : StartSave(stream)
    \/ ProducerRead
    \/ ProducerFinish
    \/ SendExit
    \/ Join
    \/ WriterRecv
    \/ \E arg \in LoadArgs : Load(arg)

Spec == Init /\ [][Next]_vars

---------------------------------------------------------------------------
(* The restore walker on its own: load commands run on a repository that   *)
(* the command finds on disk.  The repository is an input of load; the     *)
(* ones drawn hold objects as chunk_writer writes them, any of which may   *)
(* be absent.                                                              *)

Chunk0 == <<RawByte(0)>>
Chunk1 == <<RawByte(1)>>
Index01 == Cat(Sha256(Chunk0), Sha256(Chunk1))
IndexHalf == Slice(Sha256(Chunk0), 0, DigestLen \div 2)
IndexTop == Cat(Sha256(Index01), Sha256(Chunk0))
IndexOverEmpty == Cat(Sha256(Chunk1), Sha256(<<>>))

\* <<chunk_type, plaintext>> of the objects a drawn repository may hold,
\* children before parents.
RestoreObjects ==
    << <<"Data", Chunk0>>, <<"Data", Chunk1>>, <<"Index", Index01>>,
       <<"Data", Index01>>, <<"Index", <<>>>>, <<"Index", IndexHalf>>,
       <<"Index", IndexTop>>, <<"Index", IndexOverEmpty>> >>

\* The writer's state after it closed the objects numbered in S, in order:
\* each is one edge whose chunk is the pending data.
RECURSIVE Stored(_, _, _)
Stored(w, i, S) ==
    IF i > Len(RestoreObjects) THEN w
    ELSE IF i \notin S THEN Stored(w, i + 1, S)
    ELSE LET plain == RestoreObjects[i][2]
             w1 == WriteEdge([w EXCEPT !.pending = <<plain>>, !.prev_ofs = 0],
                             <<>>, <<0, Sha256(plain)>>, RestoreObjects[i][1])
         IN  Stored(w1, i + 1, S)

NeverStored == <<RawByte(0), RawByte(1)>>

RestoreArgs ==
    {ToHex(Sha256(RestoreObjects[i][2])) : i \in 1..Len(RestoreObjects)}
        \cup {ToHex(Sha256(NeverStored)), ToHex(<<>>)}

InitRestore ==
    /\ edgeBytes = {}
    /\ edgeDigest = {}
    /\ CkInit
    /\ MainInit
    /\ \E S \in SUBSET (1..Len(RestoreObjects)) :
           LET w == Stored([pending |-> <<>>, files |-> <<>>, nextKey |-> 0,
                            prev_ofs |-> 0, panic |-> FALSE], 1, S)
           IN  files = w.files /\ nextKey = w.nextKey

NextRestore == \E arg \in RestoreArgs : Load(arg)

SpecRestore == InitRestore /\ [][NextRestore]_vars

---------------------------------------------------------------------------
(* One save with chunk_writer followed file-system call by file-system     *)
(* call: what another process can find at a path while the writer runs.    *)

\* The file after chunk_file.write_all(&ephemeral_pub.0), before the cipher.
KeyedFile(ephemeral_pub) ==
    [ephemeral_pub |-> ephemeral_pub,
     cipher |-> [plain |-> <<>>, nonce |-> <<>>, between |-> {}]]

\* prev_ofs = *ofs, then the next edge, or the end of the loop and split_off.
\* [wcur, pending, panic]
AfterEdge(c, pending, ofs) ==
    IF c.i < Len(c.msg.edges)
    THEN [wcur |-> [c EXCEPT !.i = @ + 1, !.prev_ofs = ofs, !.at = "edge",
                             !.whole = <<>>],
          pending |-> pending, panic |-> FALSE]
    ELSE IF ofs = BLen(c.msg.data)
    THEN [wcur |-> <<>>, pending |-> pending, panic |-> FALSE]
    ELSE IF ofs > BLen(c.msg.data)
    THEN [wcur |-> <<>>, pending |-> pending, panic |-> TRUE]
    ELSE [wcur |-> <<>>, panic |-> FALSE,
          pending |-> Append(pending, Slice(c.msg.data, ofs, BLen(c.msg.data)))]

\* rx.recv() and the match: Exit, a Data message without edges, or the start
\* of the loop over the edges.
WriterTake ==
    /\ wpc = "run"
    /\ wcur = <<>>
    /\ chan # <<>>
    /\ LET msg == Head(chan)
       IN  IF msg.tag = "Exit"
           THEN /\ wpc' = IF pending_data = <<>> THEN "done" ELSE "panic"
                /\ UNCHANGED <<pending_data, wcur>>
           ELSE IF msg.edges = <<>>
           THEN /\ pending_data' = Append(pending_data, msg.data)
                /\ UNCHANGED <<wpc, wcur>>
           ELSE /\ wcur' = [msg |-> msg, i |-> 1, prev_ofs |-> 0, at |-> "edge",
                            whole |-> <<>>]
                /\ UNCHANGED <<wpc, pending_data>>
    /\ chan' = Tail(chan)
    /\ UNCHANGED <<files, nextKey, pc, cur, reader, kind, level, index, root,
                   filesAtStart, sent, emitted, saved>>
    /\ UNCHANGED <<rollvars, ckvars, loadvars>>

\* path.exists(): a hit clears pending_data; otherwise File::create(path).
WriterProbe ==
    /\ wpc = "run"
    /\ wcur # <<>>
    /\ wcur.at = "edge"
    /\ LET edge == wcur.msg.edges[wcur.i]
           path == digest_to_path(edge[2], wcur.msg.chunk_type)
       IN  IF path \in DOMAIN files
           THEN LET a == AfterEdge(wcur, <<>>, edge[1])
                IN  /\ wcur' = a.wcur
                    /\ pending_data' = a.pending
                    /\ wpc' = IF a.panic THEN "panic" ELSE wpc
                    /\ files' = files
           ELSE /\ files' = path :> CreatedFile @@ files
                /\ wcur' = [wcur EXCEPT !.at = "created"]
                /\ UNCHANGED <<pending_data, wpc>>
    /\ UNCHANGED <<nextKey, chan, pc, cur, reader, kind, level, index, root,
                   filesAtStart, sent, emitted, saved>>
    /\ UNCHANGED <<rollvars, ckvars, loadvars>>

\* gen_keypair, whole_data, seal, and the first write_all: the public key.
WriterWriteKey ==
    /\ wpc = "run"
    /\ wcur # <<>>
    /\ wcur.at = "created"
    /\ LET edge == wcur.msg.edges[wcur.i]
           ofs == edge[1]
           path == digest_to_path(edge[2], wcur.msg.chunk_type)
       IN  IF ofs # wcur.prev_ofs /\ ~(wcur.prev_ofs <= ofs /\ ofs <= BLen(wcur.msg.data))
           THEN /\ wpc' = "panic"
                /\ UNCHANGED <<files, wcur>>
           ELSE /\ files' = [files EXCEPT
                                 ![path] = KeyedFile(PublicOf(GenSecKey(nextKey)))]
                /\ wcur' = [wcur EXCEPT !.at = "keyed",
                                !.whole = whole_data(pending_data, wcur.msg.data,
                                                     wcur.prev_ofs, ofs)]
                /\ wpc' = wpc
    /\ pending_data' = <<>>
    /\ nextKey' = nextKey + 1
    /\ UNCHANGED <<chan, pc, cur, reader, kind, level, index, root,
                   filesAtStart, sent, emitted, saved>>
    /\ UNCHANGED <<rollvars, ckvars, loadvars>>

\* The second write_all: the cipher; then on to the next edge.
WriterWriteCipher ==
    /\ wpc = "run"
    /\ wcur # <<>>
    /\ wcur.at = "keyed"
    /\ LET edge == wcur.msg.edges[wcur.i]
           path == digest_to_path(edge[2], wcur.msg.chunk_type)
           ephemeral_sec == GenSecKey(nextKey - 1)
           cipher == Seal(wcur.whole, Slice(edge[2], 0, NonceBytes),
                          RepoPubKey, ephemeral_sec)
           a == AfterEdge(wcur, pending_data, edge[1])
       IN  /\ files' = [files EXCEPT ![path] = [ephemeral_pub |-> PublicOf(ephemeral_sec),
                                                cipher |-> cipher]]
           /\ wcur' = a.wcur
           /\ pending_data' = a.pending
           /\ wpc' = IF a.panic THEN "panic" ELSE wpc
    /\ UNCHANGED <<nextKey, chan, pc, cur, reader, kind, level, index, root,
                   filesAtStart, sent, emitted, saved>>
    /\ UNCHANGED <<rollvars, ckvars, loadvars>>

NextPublish ==
    \/ \E stream \in Streams : saved = <<>> /\ StartSave(stream)
    \/ ProducerRead
    \/ ProducerFinish
    \/ SendExit
    \/ Join
    \/ WriterTake
    \/ WriterProbe
    \/ WriterWriteKey
    \/ WriterWriteCipher

SpecPublish == Init /\ [][NextPublish]_vars

---------------------------------------------------------------------------
(* Properties *)

\* The plaintext of the object at path p of repository fs, decrypted with the
\* repository's secret key: [ok, plain].
Decrypted(fs, p) == read_file_to_writer(p, FromHex(p.name), fs)

RECURSIVE Preimages(_)
Preimages(edges) ==
    IF edges = <<>> THEN <<>> ELSE Cat(Preimage(Head(edges)[2]), Preimages(Tail(edges)))

\* finish() has just been called for the first time, after input() calls only.
FirstFinish ==
    /\ ck_calls # <<>>
    /\ ck_calls[Len(ck_calls)].op = "finish"
    /\ \A i \in 1..(Len(ck_calls) - 1) : ck_calls[i].op = "input"

\* C1: a stream saved into a fresh repository and then restored from the root
\* the save returned comes back byte for byte.
C1_RoundTrip ==
    (/\ load_status # "none"
     /\ Len(saved) = 1
     /\ saved[1].ok
     /\ load_arg = saved[1].printed)
    => (load_status = "ok" /\ load_out = saved[1].stream)

\* C2: after any completed saves, a restore of the root one of them returned
\* that runs to its end has written that save's stream: the walker took each
\* digest for the kind it was stored under.
C2_RestoreGivesThatStream ==
    \A i \in 1..Len(saved) :
        (/\ load_status = "ok"
         /\ saved[i].ok
         /\ load_arg = saved[i].printed)
        => load_out = saved[i].stream

\* C3: saving a stream again returns the same root and leaves every file under
\* chunks/ and index/ as it was; a (kind, digest) pair names one file.
C3_SaveAgainChangesNothing ==
    /\ \A i, j \in 1..Len(saved) :
           (i < j /\ saved[i].ok /\ saved[i].stream = saved[j].stream)
           => (saved[j].root = saved[i].root /\ saved[j].after = saved[j].before)
    /\ \A p, q \in DOMAIN files : (p.dir = q.dir /\ p.name = q.name) => p = q

C3_Witness ==
    /\ pc = "idle"
    /\ Len(saved) = 2
    /\ saved[1].ok /\ saved[2].ok
    /\ saved[1].stream = saved[2].stream
    /\ BLen(saved[1].stream) >= 2
    /\ Cardinality(DOMAIN saved[1].after) >= 3

\* C4: every object decrypts, and the SHA-256 of its plaintext is the digest
\* its path names.
C4_PathDigestAgreement ==
    \A p \in DOMAIN files :
        /\ Decrypted(files, p).ok
        /\ Sha256(Decrypted(files, p).plain) = FromHex(p.name)

\* A second save found a chunk already there while buffers were pending, then
\* wrote new chunks, one of them from more than one message.
C4_Witness ==
    /\ pc = "idle"
    /\ Len(saved) = 2
    /\ saved[2].ok
    /\ DOMAIN saved[2].after # DOMAIN saved[2].before
    /\ saved[2].before # <<>>
    /\ \E p \in DOMAIN files : p.dir = "index"
    /\ \E p \in DOMAIN files \ DOMAIN saved[2].before :
           p.dir = "chunks" /\ BLen(Decrypted(files, p).plain) >= 2

\* C5: the plaintext of every object under index/ is a positive multiple of
\* 32 bytes long.
C5_IndexMultipleOf32 ==
    \A p \in DOMAIN files :
        p.dir = "index"
        => LET n == BLen(Decrypted(files, p).plain)
           IN  n > 0 /\ n % DigestLen = 0

\* C6: a save of the empty stream ends well, returns the empty byte string and
\* writes nothing; a load of that root ends well and writes nothing.
C6_EmptySaveAndLoad ==
    /\ \A i \in 1..Len(saved) :
           saved[i].stream = <<>>
           => (saved[i].ok /\ saved[i].root = <<>> /\ saved[i].after = saved[i].before)
    /\ (load_status # "none" /\ FromHex(load_arg) = <<>>)
       => (load_status = "ok" /\ load_out = <<>>)

\* C7: a save of a non-empty stream with no rolling-hash edge in it stores the
\* whole stream as one object under chunks/, writes nothing else, sends no
\* Index message and returns that chunk's digest.
C7_ShorterThanOneChunk ==
    \A i \in 1..Len(saved) :
        LET e == saved[i]
            p == digest_to_path(e.root, "Data")
        IN  (e.ok /\ e.stream # <<>> /\ FirstHit(e.stream) = 0)
            => /\ e.root = Sha256(e.stream)
               /\ p \in DOMAIN e.after
               /\ Decrypted(e.after, p).plain = e.stream
               /\ DOMAIN e.after \ DOMAIN e.before \subseteq {p}
               /\ {q \in DOMAIN e.after : q.dir = "index"}
                      = {q \in DOMAIN e.before : q.dir = "index"}
               /\ e.kinds = {"Data"}
               /\ e.before = <<>> => DOMAIN e.after = {p}

C7_Witness ==
    /\ pc = "idle"
    /\ Len(saved) = 1
    /\ saved[1].ok
    /\ BLen(saved[1].stream) >= 2
    /\ FirstHit(saved[1].stream) = 0
    /\ edgeBytes # {}
    /\ Cardinality(DOMAIN files) = 1

\* C8: when the last byte fed to a Chunker was a rolling-hash edge, finish()
\* returns no edge, and no edge is the digest of an empty chunk.
C8_NoFinalEdgeAfterAnEdge ==
    (FirstFinish /\ ck_fed # <<>> /\ ck_tail = <<>>)
    => /\ ck_last = <<>>
       /\ \A j \in 1..Len(ck_out) : Preimage(ck_out[j][2]) # <<>>

\* C9: a finish() that follows a finish() returns no edge.
C9_FinishIdempotent ==
    (/\ Len(ck_calls) >= 2
     /\ ck_calls[Len(ck_calls)].op = "finish"
     /\ ck_calls[Len(ck_calls) - 1].op = "finish")
    => ck_last = <<>>

\* C10: after input() calls and one finish(), the chunks whose digests were
\* returned, put end to end in the order returned, are the bytes that were
\* fed; and input() of an empty buffer returns no edge.
C10_ChunkerCompleteness ==
    /\ FirstFinish => Preimages(ck_out) = ck_fed
    /\ (/\ ck_calls # <<>>
        /\ ck_calls[Len(ck_calls)].op = "input"
        /\ ck_calls[Len(ck_calls)].buf = <<>>)
       => ck_last = <<>>

C10_Witness ==
    /\ FirstFinish
    /\ Len(ck_out) >= 2
    /\ BLen(ck_fed) >= 2
    /\ \E i \in 1..Len(ck_calls) : ck_calls[i].op = "input" /\ ck_calls[i].buf = <<>>

\* No object is stored for the digest, under index/ or under chunks/.
Absent(digest, fs) ==
    \A i \in 1..Len(ChunkTypes) : digest_to_path(digest, ChunkTypes[i]) \notin DOMAIN fs

\* The digest names an object under chunks/ and none under index/.
DataOnly(digest, fs) ==
    /\ digest_to_path(digest, "Index") \notin DOMAIN fs
    /\ digest_to_path(digest, "Data") \in DOMAIN fs

\* The 32-byte entry number k (0-based) of an index plaintext.
Entry(plain, k) == Slice(plain, k * DigestLen, (k + 1) * DigestLen)

\* The plaintexts of the data chunks named by entries 0..k-1, end to end.
RECURSIVE Leaves(_, _, _)
Leaves(plain, k, fs) ==
    IF k = 0 THEN <<>>
    ELSE Cat(Leaves(plain, k - 1, fs),
             fs[digest_to_path(Entry(plain, k - 1), "Data")].cipher.plain)

\* The load ended in the panic of the None arm having written out.
NotFoundAfter(out) ==
    load_status = "panic" /\ load_err = "not found" /\ load_out = out

C11_MissingIsFatal ==
    load_status # "none" =>
        LET d == FromHex(load_arg)
            ip == digest_to_path(d, "Index")
        IN  /\ (BLen(d) = DigestLen /\ Absent(d, files)) => NotFoundAfter(<<>>)
            /\ (BLen(d) = DigestLen /\ ip \in DOMAIN files)
               => LET plain == files[ip].cipher.plain
                  IN  \A k \in 0..((BLen(plain) \div DigestLen) - 1) :
                          (/\ BLen(plain) % DigestLen = 0
                           /\ Absent(Entry(plain, k), files)
                           /\ \A j \in 0..(k - 1) : DataOnly(Entry(plain, j), files))
                          => NotFoundAfter(Leaves(plain, k, files))

\* C11: a load of a digest with no object under index/ nor chunks/, be it the
\* root or an entry of an index object, ends in the "not found" panic (having
\* written the chunks before it, in order), and a load changes no file.
C11_MissingObjectIsFatal ==
    /\ []C11_MissingIsFatal
    /\ [][NextRestore => files' = files]_vars

\* A load stopped at a missing second entry after writing the first chunk.
C11_Witness ==
    /\ NotFoundAfter(Chunk0)
    /\ FromHex(load_arg) = Sha256(Index01)
    /\ files # <<>>

\* The file at path p holds the whole envelope: the ephemeral public key
\* and a cipher that opens to the chunk the path names.
CompleteEnvelope(fs, p) ==
    /\ Decrypted(fs, p).ok
    /\ Sha256(Decrypted(fs, p).plain) = FromHex(p.name)

\* C12: whenever a file exists at an object's final path it holds the whole
\* envelope; no state has an empty or truncated file at a final path.
C12_AtomicPublication ==
    \A p \in DOMAIN files : CompleteEnvelope(files, p)

\* C13: whenever the Writer is about to receive Exit, its list of pending
\* buffers is empty (it holds no buffer, not even an empty one), so the
\* assertion of the Exit arm does not fail.
C13_ExitFindsNothingPending ==
    /\ (wpc = "run" /\ chan # <<>> /\ Head(chan).tag = "Exit") => pending_data = <<>>
    /\ (pc = "join" /\ chan = <<>>) => wpc # "panic"

\* C14: a load whose root is classified Index goes on only if the plaintext
\* of that object is a nonzero multiple of 32 bytes long; an index plaintext
\* of length 0, or of a length that is no multiple of 32, ends the load in
\* the panic of the assertion; otherwise the entries are restored in order.
C14_IndexLengthChecked ==
    LET d == FromHex(load_arg)
        ip == digest_to_path(d, "Index")
    IN  (load_status # "none" /\ BLen(d) = DigestLen /\ ip \in DOMAIN files
           /\ Decrypted(files, ip).ok)
        => LET plain == Decrypted(files, ip).plain
               n == BLen(plain) \div DigestLen
           IN  /\ (BLen(plain) = 0 \/ BLen(plain) % DigestLen # 0)
                  => (load_status = "panic" /\ load_err = "assert" /\ load_out = <<>>)
               /\ (/\ BLen(plain) > 0
                   /\ BLen(plain) % DigestLen = 0
                   /\ \A j \in 0..(n - 1) : DataOnly(Entry(plain, j), files))
                  => (load_status = "ok" /\ load_out = Leaves(plain, n, files))

\* The length of the stream of the running level: what its chunker was fed
\* and what is left to read.
LevelStreamLen == chunker.bytes_total + BLen(reader)

\* C15: what store_data returns is the empty byte string or one 32-byte
\* digest; the index accumulator of every level is a multiple of 32 bytes
\* long; a level of kind Index is entered exactly when the accumulator of
\* the level below is longer than 32 bytes.
C15_RootIsEmptyOrOneDigest ==
    /\ BLen(index) % DigestLen = 0
    /\ pc \in {"returned", "join"}
       => (root = index /\ BLen(root) \in {0, DigestLen})
    /\ \A i \in 1..Len(saved) : BLen(saved[i].root) \in {0, DigestLen}
    /\ (pc \in {"read", "returned", "join"} /\ level = 0) => kind = "Data"
    /\ (pc \in {"read", "returned", "join"} /\ level >= 1)
       => (/\ kind = "Index"
           /\ LevelStreamLen > DigestLen
           /\ LevelStreamLen % DigestLen = 0)

\* A save returned the digest of an index chunk of the second index level.
C15_Witness ==
    /\ pc = "returned"
    /\ level = 2
    /\ BLen(root) = DigestLen
    /\ BLen(cur) >= 2

\* C16: a save that was started goes on to its end: the recursion over the
\* index stops at a level whose index is at most 32 bytes long, neither
\* thread dies on the way, the writer that main waits for can always take
\* the next message until it has taken Exit, and it has then handled every
\* message and returned.
C16_StoreTerminates ==
    /\ pc # "panic"
    /\ wpc # "panic"
    /\ (pc = "read" /\ reader = <<>>)
       => (level < MaxLevel \/ ~Recurses(Cat(index, Sums(finish(chunker).edges))))
    /\ pc = "join" => (wpc = "done" \/ (wpc = "run" /\ chan # <<>>))
    /\ (pc = "join" /\ wpc = "done") => chan = <<>>

\* The Data messages in the channel.
DataMsgs == {chan[i] : i \in {j \in 1..Len(chan) : chan[j].tag = "Data"}}

\* The writer's state when it takes the next message.
WriterNow ==
    [pending |-> pending_data, files |-> files, nextKey |-> nextKey,
     prev_ofs |-> 0, panic |-> FALSE]

\* C17: in every Data message sent, the offsets of the edges are strictly
\* increasing; a message with a buffer has them in 1..len(buffer); the
\* terminal message of a level, whose buffer is empty, has at most one edge,
\* at offset 0; so no slice the writer takes of the buffer is out of range.
C17_EdgeOffsetsInRange ==
    /\ \A msg \in DataMsgs :
           /\ \A i, j \in 1..Len(msg.edges) : i < j => msg.edges[i][1] < msg.edges[j][1]
           /\ msg.data # <<>>
              => \A i \in 1..Len(msg.edges) : msg.edges[i][1] \in 1..BLen(msg.data)
           /\ msg.data = <<>>
              => (Len(msg.edges) <= 1 /\ \A i \in 1..Len(msg.edges) : msg.edges[i][1] = 0)
    /\ (wpc = "run" /\ chan # <<>> /\ Head(chan).tag = "Data")
       => ~WriterData(WriterNow, Head(chan).data, Head(chan).edges,
                      Head(chan).chunk_type).panic

\* A message with two edges in one buffer is in the channel behind a
\* terminal message.
C17_Witness ==
    /\ \E msg \in DataMsgs : Len(msg.edges) >= 2 /\ msg.edges[2][1] = BLen(msg.data)
    /\ \E msg \in DataMsgs : msg.data = <<>> /\ Len(msg.edges) = 1
    /\ wpc = "run"

\* The writer takes a Data message all of whose edges name a path that is
\* already there.
WriterTakesHits ==
    /\ wpc = "run"
    /\ pc # "idle"
    /\ chan # <<>>
    /\ chan' = Tail(chan)
    /\ Head(chan).tag = "Data"
    /\ Head(chan).edges # <<>>
    /\ \A i \in 1..Len(Head(chan).edges) :
           digest_to_path(Head(chan).edges[i][2], Head(chan).chunk_type) \in DOMAIN files

\* What is left of the buffer after its last edge, as the list of pending buffers.
AfterLastEdge(msg) ==
    LET last == msg.edges[Len(msg.edges)][1]
    IN  IF last = BLen(msg.data) THEN <<>>
        ELSE <<Slice(msg.data, last, BLen(msg.data))>>

\* C18: a file that exists at an object path is there, unchanged, after
\* every step of every save and load; a writer step that finds every path of
\* a message present writes nothing and only drops the pending buffers.
C18_WriteOnce ==
    [][/\ \A p \in DOMAIN files : p \in DOMAIN files' /\ files'[p] = files[p]
       /\ WriterTakesHits
          => (/\ files' = files
              /\ nextKey' = nextKey
              /\ pending_data' = AfterLastEdge(Head(chan)))]_vars

\* A second save found a chunk of the first one, wrote new objects beside
\* it, and a load has run since.
C18_Witness ==
    /\ pc = "idle"
    /\ Len(saved) = 2
    /\ saved[2].ok
    /\ saved[2].stream # saved[1].stream
    /\ DOMAIN saved[2].after # DOMAIN saved[2].before
    /\ \E p \in DOMAIN saved[2].before :
           LET pre == Preimage(FromHex(p.name))
           IN  p.dir = "chunks" /\ pre # <<>> /\ Take(saved[2].stream, BLen(pre)) = pre
    /\ \A p \in DOMAIN saved[2].before : files[p] = saved[2].before[p]
    /\ load_status = "ok"

\* The number of Data messages in the channel, and the place in the order
\* of sending of the one at its head.
NData == Cardinality({j \in 1..Len(chan) : chan[j].tag = "Data"})
HeadSentAt == Len(sent) - NData + 1

\* Every edge in es has its object in fs.
AllStored(es, fs) == \A e \in es : digest_to_path(e[2], e[1]) \in DOMAIN fs

\* C19: Exit is sent after the producer has returned from every level and is
\* the last message in the channel; the writer takes the Data messages in
\* the order they were sent and has taken them all when it returns; when the
\* save has ended well, every edge the producer sent at any level, the root
\* included, has its object on disk.
C19_ExitLastAndAllStored ==
    /\ \A i \in 1..Len(chan) :
           chan[i].tag = "Exit" => (i = Len(chan) /\ pc \in {"join", "idle"})
    /\ pc \in {"read", "returned", "join"}
       => /\ NData <= Len(sent)
          /\ \A i \in 1..NData :
                 chan[i].tag = "Data"
                 /\ chan[i].chunk_type = sent[HeadSentAt + i - 1].chunk_type
          /\ \A i, j \in 1..Len(sent) : i < j => sent[i].level <= sent[j].level
    /\ wpc = "done" => (chan = <<>> /\ AllStored(emitted, files))
    /\ \A i \in 1..Len(saved) :
           saved[i].ok
           => /\ AllStored(saved[i].edges, saved[i].after)
              /\ saved[i].root # <<>>
                 => \E t \in {"Index", "Data"} : <<t, saved[i].root>> \in saved[i].edges

\* A save over two index levels has ended well.
C19_Witness ==
    /\ pc = "idle"
    /\ Len(saved) = 1
    /\ saved[1].ok
    /\ Cardinality(saved[1].edges) >= 4
    /\ \E e \in saved[1].edges : e[1] = "Index"
    /\ \E e \in saved[1].edges : e[1] = "Data"

\* C20: when the writer is about to take the first message of a level (the
\* first message of the save, or one of another level than the message sent
\* before it), its list of pending buffers is empty; and the objects a save
\* of raw bytes adds hold bytes of one kind: stream bytes under chunks/,
\* digest bytes under index/.
C20_LevelsDoNotMix ==
    /\ (/\ wpc = "run"
        /\ pc \in {"read", "returned", "join"}
        /\ chan # <<>>
        /\ Head(chan).tag = "Data"
        /\ (HeadSentAt = 1 \/ sent[HeadSentAt].level # sent[HeadSentAt - 1].level))
       => pending_data = <<>>
    /\ \A i \in 1..Len(saved) :
           \A p \in DOMAIN saved[i].after \ DOMAIN saved[i].before :
               LET plain == saved[i].after[p].cipher.plain
               IN  (saved[i].ok /\ \A n \in 1..Len(saved[i].stream) : saved[i].stream[n].k = "raw")
                   => \A n \in 1..Len(plain) :
                          plain[n].k = IF p.dir = "chunks" THEN "raw" ELSE "sha"

\* The writer is about to take the first message of an index level, having
\* closed a chunk of the level below that came in more than one message.
C20_Witness ==
    /\ wpc = "run"
    /\ chan # <<>>
    /\ Head(chan).tag = "Data"
    /\ HeadSentAt >= 4
    /\ sent[HeadSentAt].level = 1
    /\ sent[HeadSentAt - 1].level = 0
    /\ pending_data = <<>>
    /\ \E p \in DOMAIN files : p.dir = "chunks" /\ BLen(files[p].cipher.plain) >= 2

===========================================================================
